---- MODULE Spec2Model ----
(***************************************************************************)
(* Conway's Game of Life for the NumWorks calculator (src/src/main.rs).    *)
(* The board, the sparse one-generation step run_once, the cell renderer   *)
(* draw_cell and the polling main loop _eadk_main with its three modes.    *)
(***************************************************************************)
EXTENDS Integers, Sequences, FiniteSets, TLC

\* The screen, in pixels.  The calculator's screen is 320 x 240; the model
\* keeps the code and scales the screen down.
SCREEN_WIDTH == 12
SCREEN_HEIGHT == 12

CELL_SIZE == 4
LINE_SIZE == SCREEN_WIDTH \div CELL_SIZE
COLUMN_SIZE == SCREEN_HEIGHT \div CELL_SIZE
BOARD_SIZE == LINE_SIZE * COLUMN_SIZE

\* At most this many keys are down in one keyboard scan.
MaxKeysDown == 2

Xs == 0 .. (LINE_SIZE - 1)
Ys == 0 .. (COLUMN_SIZE - 1)
Cells == Xs \X Ys

\* type Board<T> = [[T; COLUMN_SIZE]; LINE_SIZE], indexed board[x][y]
Boards == [Xs -> [Ys -> BOOLEAN]]

AppState == {"Editor", "Running", "StepByStep"}

Color == {"WHITE", "BLACK", "RED"}

\* The keys the main loop queries.
Keys == {"LEFT", "UP", "DOWN", "RIGHT", "XNT", "VAR", "TOOLBOX", "EXE", "PLUS", "MINUS"}

\* keyboard::scan(): a snapshot of the levels of all keys.
RECURSIVE KeySets(_)
KeySets(n) ==
    IF n = 0 THEN {{}}
    ELSE KeySets(n - 1) \cup {s \cup {k} : s \in KeySets(n - 1), k \in Keys}

KeySnapshots == KeySets(MaxKeysDown)

key_down(keyboard_state, k) == k \in keyboard_state

Max(a, b) == IF a >= b THEN a ELSE b
Min(a, b) == IF a <= b THEN a ELSE b

InBounds(c) == c[1] \in Xs /\ c[2] \in Ys

\* ------------------------------------------------------------------------
\* Simulation engine

\* A lookup that wraps to the opposite edge instead of reading dead.
get_cell_Wrapping(b, c) ==
    IF b[(c[1] + LINE_SIZE) % LINE_SIZE][(c[2] + COLUMN_SIZE) % COLUMN_SIZE] THEN 1 ELSE 0

get_cell(b, c) ==
    IF c[1] < 0 \/ c[2] < 0 \/ c[1] > LINE_SIZE - 1 \/ c[2] > COLUMN_SIZE - 1
    THEN 0
    ELSE IF b[c[1]][c[2]] THEN 1 ELSE 0

\* A count that includes the cell itself.
neighbor_count_WithSelf(b, c) ==
    Cardinality({d \in Cells : /\ d[1] - c[1] \in {-1, 0, 1}
                               /\ d[2] - c[2] \in {-1, 0, 1}
                               /\ b[d[1]][d[2]]})

neighbor_count(b, c) ==
      get_cell(b, <<c[1] - 1, c[2] - 1>>)
    + get_cell(b, <<c[1],     c[2] - 1>>)
    + get_cell(b, <<c[1] + 1, c[2] - 1>>)
    + get_cell(b, <<c[1] - 1, c[2]>>)
    + get_cell(b, <<c[1] + 1, c[2]>>)
    + get_cell(b, <<c[1] - 1, c[2] + 1>>)
    + get_cell(b, <<c[1],     c[2] + 1>>)
    + get_cell(b, <<c[1] + 1, c[2] + 1>>)

\* Option<bool>: <<TRUE>> is Some(true), <<FALSE>> is Some(false), <<>> is None.
\* The rule without death by overpopulation.
Rule_NoOverpopulation(n, alive) ==
    IF n = 3 /\ ~alive THEN <<TRUE>>
    ELSE IF n < 2 /\ alive THEN <<FALSE>>
    ELSE <<>>

Rule(n, alive) ==
    IF n = 3 /\ ~alive THEN <<TRUE>>
    ELSE IF n /= 2 /\ n /= 3 /\ alive THEN <<FALSE>>
    ELSE <<>>

\* A rule under which no alive cell ever dies.
run_cell_NoDeath(b, c) ==
    IF neighbor_count(b, c) = 3 /\ ~b[c[1]][c[2]] THEN <<TRUE>> ELSE <<>>

run_cell(b, c) == Rule(neighbor_count(b, c), b[c[1]][c[2]])

\* The offsets taken from the exclusive range -1..1: no cell right of or
\* below the alive cell is evaluated.
Neighborhood_ExclusiveRange(x, y, dx, dy) ==
    << Min(Max(x + Min(dx, 0), 0), LINE_SIZE - 1),
       Min(Max(y + Min(dy, 0), 0), COLUMN_SIZE - 1) >>

\* The coordinate run_once evaluates for the alive cell (x, y) and the
\* offset (dx, dy): clamped to the board.
Neighborhood(x, y, dx, dy) ==
    << Min(Max(x + dx, 0), LINE_SIZE - 1), Min(Max(y + dy, 0), COLUMN_SIZE - 1) >>

\* A vector with room for half the cells of the board only.
Push_HalfCapacity(acc, field, c) ==
    IF Len(acc[field]) >= BOARD_SIZE \div 2
    THEN [acc EXCEPT !.panicked = TRUE]
    ELSE [acc EXCEPT ![field] = Append(@, c)]

\* heapless Vec::push(..).unwrap(): a push on a full vector panics.
Push(acc, field, c) ==
    IF Len(acc[field]) >= BOARD_SIZE
    THEN [acc EXCEPT !.panicked = TRUE]
    ELSE [acc EXCEPT ![field] = Append(@, c)]

\* Evaluate the cell c, once marked as done, and collect its birth or death.
Evaluate(marked, r, c) ==
    IF r = <<TRUE>> THEN Push(marked, "born", c)
    ELSE IF r = <<FALSE>> THEN Push(marked, "died", c)
    ELSE marked

\* The innermost loop body without the updated_board marker.
Visit_NoMarker(b, c, acc) ==
    IF ~InBounds(c) THEN [acc EXCEPT !.panicked = TRUE]
    ELSE Evaluate(acc, run_cell(b, c), c)

\* The body of the innermost loop of run_once for the coordinate c.  Indexing
\* updated_board or board off the array panics.
Visit(b, c, acc) ==
    IF ~InBounds(c) THEN [acc EXCEPT !.panicked = TRUE]
    ELSE IF acc.updated_board[c[1]][c[2]] THEN acc
    ELSE Evaluate([acc EXCEPT !.updated_board[c[1]][c[2]] = TRUE], run_cell(b, c), c)

\* for dx in -1..=1 { for dy in -1..=1 { .. } } around the alive cell (x, y);
\* j counts the (dx, dy) pairs in iteration order.
RECURSIVE ScanOffsets(_, _, _, _, _)
ScanOffsets(b, x, y, j, acc) ==
    IF j >= 9 \/ acc.panicked THEN acc
    ELSE ScanOffsets(b, x, y, j + 1,
                     Visit(b, Neighborhood(x, y, (j \div 3) - 1, (j % 3) - 1), acc))

\* A scan that visits the neighbourhood of every cell, alive or not.
RECURSIVE Scan_EveryCell(_, _, _)
Scan_EveryCell(b, i, acc) ==
    IF i >= BOARD_SIZE \/ acc.panicked THEN acc
    ELSE Scan_EveryCell(b, i + 1,
                        ScanOffsets(b, i \div COLUMN_SIZE, i % COLUMN_SIZE, 0, acc))

\* board.iter().enumerate() over x, col.iter().enumerate() over y; i counts
\* the cells in iteration order.
RECURSIVE Scan(_, _, _)
Scan(b, i, acc) ==
    IF i >= BOARD_SIZE \/ acc.panicked THEN acc
    ELSE IF b[i \div COLUMN_SIZE][i % COLUMN_SIZE]
    THEN Scan(b, i + 1, ScanOffsets(b, i \div COLUMN_SIZE, i % COLUMN_SIZE, 0, acc))
    ELSE Scan(b, i + 1, acc)

\* The first half of run_once: the visited marker and the two lists.
Collect(b) ==
    Scan(b, 0, [updated_board |-> [x \in Xs |-> [y \in Ys |-> FALSE]],
                born |-> <<>>, died |-> <<>>, panicked |-> FALSE])

CellColor(b, c) == IF b[c[1]][c[2]] THEN "BLACK" ELSE "WHITE"

\* draw_cell: the display after filling the rectangle of cell c.
draw_cell(scr, b, c) == [scr EXCEPT ![c[1]][c[2]] = CellColor(b, c)]

\* board[x][y] = v; draw_cell(&board, (x, y))
WriteAndDraw(scr, nb, c) == [board |-> nb, screen |-> draw_cell(scr, nb, c)]

\* born.into_iter().for_each / died.into_iter().for_each: write then redraw.
RECURSIVE ApplyList(_, _, _, _)
ApplyList(bs, list, i, v) ==
    IF i > Len(list) THEN bs
    ELSE ApplyList(WriteAndDraw(bs.screen, [bs.board EXCEPT ![list[i][1]][list[i][2]] = v],
                                list[i]),
                   list, i + 1, v)

\* The panic handler paints the whole screen red and never returns.
PanicScreen == [x \in Xs |-> [y \in Ys |-> "RED"]]

Result(bs, col) ==
    [board |-> bs.board, screen |-> bs.screen, born |-> col.born,
     died |-> col.died, panicked |-> FALSE]

\* The second half of run_once: apply the births, then the deaths.
Apply(b, scr, col) ==
    IF col.panicked
    THEN [board |-> b, screen |-> PanicScreen, born |-> col.born,
          died |-> col.died, panicked |-> TRUE]
    ELSE Result(ApplyList(ApplyList([board |-> b, screen |-> scr], col.born, 1, TRUE),
                          col.died, 1, FALSE), col)

run_once(b, scr) == Apply(b, scr, Collect(b))

\* ------------------------------------------------------------------------
\* State

VARIABLES
    board,      \* the cell grid
    state,      \* the mode of the main loop
    pointer,    \* the editor cursor
    screen,     \* the colour last drawn for each cell
    born,       \* the births collected by the last run_once of the iteration
    died,       \* the deaths collected by the last run_once of the iteration
    pre_step,   \* the board the last iteration handed to its simulation phase
    ran,        \* calls of run_once in the last iteration
    exe_down,   \* level of EXE in the last keyboard scan
    panicked    \* the panic handler has been entered

vars == <<board, state, pointer, screen, born, died, pre_step, ran, exe_down, panicked>>

EmptyBoard == [x \in Xs |-> [y \in Ys |-> FALSE]]
WhiteScreen == [x \in Xs |-> [y \in Ys |-> "WHITE"]]

Init ==
    /\ board = EmptyBoard
    /\ state = "Editor"
    /\ pointer = <<LINE_SIZE \div 2, COLUMN_SIZE \div 2>>
    /\ screen = WhiteScreen
    /\ born = <<>>
    /\ died = <<>>
    /\ pre_step = EmptyBoard
    /\ ran = 0
    /\ exe_down = FALSE
    /\ panicked = FALSE

\* ------------------------------------------------------------------------
\* Main loop (_eadk_main)

\* The if / else-if chain on XNT, VAR, TOOLBOX at the top of the loop body.
SwitchState(ks, st) ==
    IF key_down(ks, "XNT") THEN "Editor"
    ELSE IF key_down(ks, "VAR") THEN "Running"
    ELSE IF key_down(ks, "TOOLBOX") THEN "StepByStep"
    ELSE st

\* A switch to Running or StepByStep that leaves the cursor cell as drawn.
SwitchScreen_NoRedraw(ks, scr, b, p) == scr

SwitchScreen(ks, scr, b, p) ==
    IF key_down(ks, "XNT") THEN scr
    ELSE IF key_down(ks, "VAR") \/ key_down(ks, "TOOLBOX") THEN draw_cell(scr, b, p)
    ELSE scr

\* EXE toggles, PLUS sets, MINUS clears the cell under the cursor.
\* An EXE key that sets the cell instead of inverting it.
EditCell_ExeSets(ks, b, p) ==
    IF key_down(ks, "EXE") \/ key_down(ks, "PLUS")
    THEN [b EXCEPT ![p[1]][p[2]] = TRUE]
    ELSE IF key_down(ks, "MINUS") THEN [b EXCEPT ![p[1]][p[2]] = FALSE]
    ELSE b

\* An editing chain that looks at MINUS before PLUS.
EditCell_MinusFirst(ks, b, p) ==
    IF key_down(ks, "EXE") THEN [b EXCEPT ![p[1]][p[2]] = ~@]
    ELSE IF key_down(ks, "MINUS") THEN [b EXCEPT ![p[1]][p[2]] = FALSE]
    ELSE IF key_down(ks, "PLUS") THEN [b EXCEPT ![p[1]][p[2]] = TRUE]
    ELSE b

EditCell(ks, b, p) ==
    IF key_down(ks, "EXE") THEN [b EXCEPT ![p[1]][p[2]] = ~@]
    ELSE IF key_down(ks, "PLUS") THEN [b EXCEPT ![p[1]][p[2]] = TRUE]
    ELSE IF key_down(ks, "MINUS") THEN [b EXCEPT ![p[1]][p[2]] = FALSE]
    ELSE b

\* UP / DOWN: redraw the cell the cursor leaves, then move.
MoveVertical(ks, ps, b) ==
    LET p == ps.pointer IN
    IF key_down(ks, "UP") /\ p[2] > 0
    THEN [pointer |-> <<p[1], p[2] - 1>>, screen |-> draw_cell(ps.screen, b, p)]
    ELSE IF key_down(ks, "DOWN") /\ p[2] < COLUMN_SIZE - 1
    THEN [pointer |-> <<p[1], p[2] + 1>>, screen |-> draw_cell(ps.screen, b, p)]
    ELSE ps

\* LEFT moves without looking at the column.
MoveHorizontal_NoGuard(ks, ps, b) ==
    IF key_down(ks, "LEFT")
    THEN [pointer |-> <<ps.pointer[1] - 1, ps.pointer[2]>>, screen |-> ps.screen]
    ELSE IF key_down(ks, "RIGHT") /\ ps.pointer[1] < LINE_SIZE - 1
    THEN [pointer |-> <<ps.pointer[1] + 1, ps.pointer[2]>>, screen |-> ps.screen]
    ELSE ps

\* LEFT / RIGHT: redraw the cell the cursor leaves, then move.
MoveHorizontal(ks, ps, b) ==
    LET p == ps.pointer IN
    IF key_down(ks, "LEFT") /\ p[1] > 0
    THEN [pointer |-> <<p[1] - 1, p[2]>>, screen |-> draw_cell(ps.screen, b, p)]
    ELSE IF key_down(ks, "RIGHT") /\ p[1] < LINE_SIZE - 1
    THEN [pointer |-> <<p[1] + 1, p[2]>>, screen |-> draw_cell(ps.screen, b, p)]
    ELSE ps

\* The cursor rectangle drawn at the end of the Editor arm.
DrawPointer(nb, h) ==
    [board |-> nb, pointer |-> h.pointer,
     screen |-> [h.screen EXCEPT ![h.pointer[1]][h.pointer[2]] = "RED"],
     born |-> <<>>, died |-> <<>>, pre_step |-> nb, ran |-> 0, panicked |-> FALSE]

MoveAndDraw(ks, nb, p, scr) ==
    DrawPointer(nb, MoveHorizontal(ks, MoveVertical(ks, [pointer |-> p, screen |-> scr], nb), nb))

\* An Editor arm that moves the cursor first and edits the cell it lands on.
EditorArm_EditAfterMove(ks, b, p, scr) ==
    LET h == MoveHorizontal(ks, MoveVertical(ks, [pointer |-> p, screen |-> scr], b), b)
    IN  DrawPointer(EditCell(ks, b, h.pointer), h)

\* The AppState::Editor arm.
EditorArm(ks, b, p, scr) == MoveAndDraw(ks, EditCell(ks, b, p), p, scr)

\* A simulation step that sends the cursor back to the centre of the board.
Ran_HomePointer(r, b, p) ==
    [board |-> r.board, pointer |-> <<LINE_SIZE \div 2, COLUMN_SIZE \div 2>>,
     screen |-> r.screen, born |-> r.born, died |-> r.died, pre_step |-> b,
     ran |-> 1, panicked |-> r.panicked]

\* The record of an arm that has called run_once on b with outcome r.
Ran(r, b, p) ==
    [board |-> r.board, pointer |-> p, screen |-> r.screen,
     born |-> r.born, died |-> r.died, pre_step |-> b, ran |-> 1,
     panicked |-> r.panicked]

\* A Running arm that steps only while EXE is down.
RunningArm_NeedsExe(ks, b, p, scr, col) ==
    IF key_down(ks, "EXE") THEN Ran(Apply(b, scr, col), b, p)
    ELSE [board |-> b, pointer |-> p, screen |-> scr,
          born |-> <<>>, died |-> <<>>, pre_step |-> b, ran |-> 0, panicked |-> FALSE]

\* The AppState::Running arm; col is what run_once collects on b: Collect(b).
RunningArm(ks, b, p, scr, col) == Ran(Apply(b, scr, col), b, p)

\* A StepByStep arm that steps whether or not EXE is down.
StepByStepArm_Always(ks, b, p, scr, col) == RunningArm(ks, b, p, scr, col)

\* The AppState::StepByStep arm.
StepByStepArm(ks, b, p, scr, col) ==
    IF key_down(ks, "EXE")
    THEN RunningArm(ks, b, p, scr, col)
    ELSE [board |-> b, pointer |-> p, screen |-> scr,
          born |-> <<>>, died |-> <<>>, pre_step |-> b, ran |-> 0, panicked |-> FALSE]

\* One pass of the loop body, from keyboard::scan() to wait_for_vblank().
Arm(ks, b, st1, p, scr1, col) ==
    IF st1 = "Editor" THEN EditorArm(ks, b, p, scr1)
    ELSE IF st1 = "Running" THEN RunningArm(ks, b, p, scr1, col)
    ELSE StepByStepArm(ks, b, p, scr1, col)

\* A loop that falls back to Editor once the board has died out.
AfterArm_AutoEditor(ks, st1, arm) ==
    [board |-> arm.board,
     state |-> IF arm.ran = 1 /\ arm.board = EmptyBoard THEN "Editor" ELSE st1,
     pointer |-> arm.pointer,
     screen |-> arm.screen, born |-> arm.born, died |-> arm.died,
     pre_step |-> arm.pre_step, ran |-> arm.ran,
     exe_down |-> key_down(ks, "EXE"), panicked |-> arm.panicked]

AfterArm(ks, st1, arm) ==
    [board |-> arm.board, state |-> st1, pointer |-> arm.pointer,
     screen |-> arm.screen, born |-> arm.born, died |-> arm.died,
     pre_step |-> arm.pre_step, ran |-> arm.ran,
     exe_down |-> key_down(ks, "EXE"), panicked |-> arm.panicked]

\* A loop body that matches on the mode it had before the switch keys.
LoopBody_OldMode(ks, b, st, p, scr, col) ==
    AfterArm(ks, SwitchState(ks, st),
             Arm(ks, b, st, p, SwitchScreen(ks, scr, b, p), col))

LoopBody(ks, b, st, p, scr, col) ==
    AfterArm(ks, SwitchState(ks, st),
             Arm(ks, b, SwitchState(ks, st), p, SwitchScreen(ks, scr, b, p), col))

Commit(r) ==
    /\ board' = r.board
    /\ state' = r.state
    /\ pointer' = r.pointer
    /\ screen' = r.screen
    /\ born' = r.born
    /\ died' = r.died
    /\ pre_step' = r.pre_step
    /\ ran' = r.ran
    /\ exe_down' = r.exe_down
    /\ panicked' = r.panicked

Iteration(ks, col) ==
    /\ ~panicked
    /\ Commit(LoopBody(ks, board, state, pointer, screen, col))

\* Every arm that steps the simulation steps the board the iteration started
\* with, so its lists are computed once for all key snapshots.
IterationIn(st1, col) ==
    \E ks \in KeySnapshots : SwitchState(ks, state) = st1 /\ Iteration(ks, col)

EditorIteration == IterationIn("Editor", Collect(board))

RunningIteration == IterationIn("Running", Collect(board))

StepByStepIteration == IterationIn("StepByStep", Collect(board))

Next == EditorIteration \/ RunningIteration \/ StepByStepIteration

Spec == Init /\ [][Next]_vars

\* ------------------------------------------------------------------------
\* The simulation engine on its own: run_once applied to any board.

BoardScreen(b) == [x \in Xs |-> [y \in Ys |-> CellColor(b, <<x, y>>)]]

InitEngine ==
    /\ board \in Boards
    /\ state = "Running"
    /\ pointer = <<LINE_SIZE \div 2, COLUMN_SIZE \div 2>>
    /\ screen = BoardScreen(board)
    /\ born = <<>>
    /\ died = <<>>
    /\ pre_step = board
    /\ ran = 0
    /\ exe_down = FALSE
    /\ panicked = FALSE

RunOnce ==
    /\ ~panicked
    /\ Commit(AfterArm({}, state, RunningArm({}, board, pointer, screen, Collect(board))))

NextEngine == RunOnce

SpecEngine == InitEngine /\ [][NextEngine]_vars

\* ------------------------------------------------------------------------
\* Reference definitions for the properties

Range(seq) == {seq[i] : i \in 1 .. Len(seq)}

At(b, c) == b[c[1]][c[2]]

\* The Moore neighbours of c that lie on the board.
Moore(c) ==
    {d \in Cells : d /= c /\ d[1] - c[1] \in {-1, 0, 1} /\ d[2] - c[2] \in {-1, 0, 1}}

AliveNeighbors(b, c) == Cardinality({d \in Moore(c) : At(b, d)})

\* Conway's rule for one cell against the board b.
Conway(b, c) ==
    IF At(b, c) THEN AliveNeighbors(b, c) \in {2, 3} ELSE AliveNeighbors(b, c) = 3

\* Strategy (a): the rule applied to every cell against the pre-step board.
FullScan(b) == [x \in Xs |-> [y \in Ys |-> Conway(b, <<x, y>>)]]

AllAlive == [x \in Xs |-> [y \in Ys |-> TRUE]]

Changed(b1, b2) == {c \in Cells : At(b1, c) /= At(b2, c)}

\* ------------------------------------------------------------------------
\* C1: whenever run_once has run, it has not panicked and the board equals
\* the full scan of the board it was called with.
C1_SparseEqualsFullScan ==
    ran = 1 => (~panicked /\ board = FullScan(pre_step))

\* run_once has run on the board with every cell alive (corners, edges and
\* the interior alive) and has changed it.
C1_Witness ==
    /\ ran = 1
    /\ pre_step = AllAlive
    /\ board = FullScan(AllAlive)
    /\ board /= pre_step

\* C2: after run_once, a cell that was dead with exactly 3 alive neighbours
\* is alive, a cell that was alive with 0, 1, 4, 5, 6, 7 or 8 alive neighbours
\* is dead, and every other cell keeps its value.
C2_RuleApplied ==
    ran = 1 =>
        \A c \in Cells :
            LET n == AliveNeighbors(pre_step, c) IN
            /\ (~At(pre_step, c) /\ n = 3) => At(board, c)
            /\ (At(pre_step, c) /\ n \in {0, 1, 4, 5, 6, 7, 8}) => ~At(board, c)
            /\ (At(pre_step, c) /\ n \in {2, 3}) => At(board, c)
            /\ (~At(pre_step, c) /\ n /= 3) => ~At(board, c)

\* One call of run_once in which a cell was born, an alive cell with at least
\* 4 neighbours and one with at most 1 neighbour died, and one survived.
C2_Witness ==
    /\ ran = 1
    /\ \E c \in Cells : ~At(pre_step, c) /\ AliveNeighbors(pre_step, c) = 3 /\ At(board, c)
    /\ \E c \in Cells : At(pre_step, c) /\ AliveNeighbors(pre_step, c) >= 4 /\ ~At(board, c)
    /\ \E c \in Cells : At(pre_step, c) /\ AliveNeighbors(pre_step, c) <= 1 /\ ~At(board, c)
    /\ \E c \in Cells : At(pre_step, c) /\ AliveNeighbors(pre_step, c) \in {2, 3} /\ At(board, c)

\* C3: the neighbour count the rule uses for a cell is the number of alive
\* cells among its Moore neighbours on the board; cells off the board count
\* 0 and the count never wraps to the opposite edge.
C3_NeighborCount ==
    \A c \in Cells :
        /\ neighbor_count(board, c) = AliveNeighbors(board, c)
        /\ neighbor_count(pre_step, c) = AliveNeighbors(pre_step, c)

\* run_once has run on a board whose corner (0,0) was dead with (0,1), (1,0),
\* (1,1) alive and every cell of the opposite edges alive: the count for the
\* corner was exactly 3 and the corner was born.
C3_Witness ==
    /\ ran = 1
    /\ ~At(pre_step, <<0, 0>>)
    /\ At(pre_step, <<0, 1>>) /\ At(pre_step, <<1, 0>>) /\ At(pre_step, <<1, 1>>)
    /\ \A c \in Cells : (c[1] = LINE_SIZE - 1 \/ c[2] = COLUMN_SIZE - 1) => At(pre_step, c)
    /\ neighbor_count(pre_step, <<0, 0>>) = 3
    /\ At(board, <<0, 0>>)

\* C4: the cells run_once collects as born or died are exactly the cells
\* whose value differs between the pre-step and the post-step board, no cell
\* is in both lists and none is listed (written, redrawn) twice.
C4_DirtyIsChanged ==
    ran = 1 =>
        /\ Range(born) \cup Range(died) = Changed(pre_step, board)
        /\ Range(born) \cap Range(died) = {}
        /\ Len(born) + Len(died) = Cardinality(Changed(pre_step, board))
        /\ \A c \in Cells \ (Range(born) \cup Range(died)) : At(board, c) = At(pre_step, c)
        /\ \A c \in Range(born) \cup Range(died) : At(screen, c) = CellColor(board, c)

\* One call of run_once that collected births and deaths and left a cell alone.
C4_Witness ==
    /\ ran = 1
    /\ born /= <<>>
    /\ died /= <<>>
    /\ Range(born) \cup Range(died) /= Cells

\* ------------------------------------------------------------------------
\* C5: in StepByStep mode a generation is advanced exactly on the iterations
\* in which EXE goes from not pressed to pressed, so that N presses advance N
\* generations however many iterations each press is held for.
C5_EdgeTriggered ==
    [][(state = "StepByStep" /\ state' = "StepByStep")
          => (ran' = 1 <=> (~exe_down /\ exe_down'))]_vars

\* C6: an iteration whose mode after the switch keys is Running calls run_once
\* exactly once on the board it started with and leaves its next generation.
C6_RunningStepsOnce ==
    /\ [](state = "Running" => (ran = 1 /\ ~panicked /\ board = FullScan(pre_step)))
    /\ [][state' = "Running" => pre_step' = board]_vars

\* A Running iteration, with EXE down as well, in which cells were born and
\* cells died.
C6_Witness ==
    /\ state = "Running"
    /\ ran = 1
    /\ exe_down
    /\ born /= <<>>
    /\ died /= <<>>
    /\ board = FullScan(pre_step)

\* C7 as claimed: a StepByStep iteration without EXE changes neither the
\* board, nor the cursor, nor the colour shown for any cell.
C7_NothingChanges ==
    [][(state' = "StepByStep" /\ ~exe_down') =>
          (ran' = 0 /\ board' = board /\ pointer' = pointer /\ screen' = screen)]_vars

\* C7 as amended: a StepByStep iteration without EXE does not run the
\* simulation and changes neither the board nor the cursor; the colours shown
\* stay the same except that an iteration entering from Editor replaces the
\* highlight of the cursor cell by the colour of that cell.
C7_NoStepWithoutExe ==
    [][(state' = "StepByStep" /\ ~exe_down') =>
          /\ ran' = 0
          /\ board' = board
          /\ pointer' = pointer
          /\ \A c \in Cells : c /= pointer => At(screen', c) = At(screen, c)
          /\ At(screen', pointer) = IF state = "Editor" THEN CellColor(board, pointer)
                                     ELSE At(screen, pointer)]_vars

\* StepByStep mode after an iteration without EXE, on a board with alive
\* cells, none of them shown highlighted.
C7_Witness ==
    /\ state = "StepByStep"
    /\ ~exe_down
    /\ ran = 0
    /\ board /= EmptyBoard
    /\ \A c \in Cells : At(screen, c) = CellColor(board, c)

\* The mode the switch keys select: XNT before VAR before TOOLBOX.
Selected(ks, st) ==
    CASE "XNT" \in ks -> "Editor"
      [] "XNT" \notin ks /\ "VAR" \in ks -> "Running"
      [] {"XNT", "VAR"} \cap ks = {} /\ "TOOLBOX" \in ks -> "StepByStep"
      [] OTHER -> st

C8_With(col) ==
    \A ks \in KeySnapshots :
        LoopBody(ks, board, state, pointer, screen, col).state = Selected(ks, state)

\* C8: the mode after an iteration is Editor if XNT is down, else Running if
\* VAR is down, else StepByStep if TOOLBOX is down, else the mode before; the
\* editor and the simulation never change it.
C8_ModeByKeysOnly == ~panicked => C8_With(Collect(board))

\* Running mode on a board that the next generation leaves all dead: the
\* iteration with no key down stays in Running mode.
C8_Witness ==
    /\ state = "Running"
    /\ board /= EmptyBoard
    /\ FullScan(board) = EmptyBoard
    /\ LoopBody({}, board, state, pointer, screen, Collect(board)).state = "Running"
    /\ LoopBody({}, board, state, pointer, screen, Collect(board)).board = EmptyBoard

C9_Holds(ks, r, gen) ==
    /\ Selected(ks, state) = "Editor" =>
            /\ r.ran = 0
            /\ Changed(board, r.board) \subseteq {pointer}
            /\ "EXE" \in ks => At(r.board, pointer) = ~At(board, pointer)
    /\ Selected(ks, state) = "Running" =>
            r.ran = 1 /\ r.board = gen /\ r.pointer = pointer
    /\ Selected(ks, state) = "StepByStep" =>
            /\ r.pointer = pointer
            /\ r.ran = (IF "EXE" \in ks THEN 1 ELSE 0)
            /\ r.board = (IF "EXE" \in ks THEN gen ELSE board)

C9_With(col, gen) ==
    \A ks \in KeySnapshots :
        C9_Holds(ks, LoopBody(ks, board, state, pointer, screen, col), gen)

\* C9: the switch keys are applied first and only the arm of the mode they
\* select runs: leaving Editor, the cell is not edited and the cursor does not
\* move; entering Editor, no generation is computed.
C9_SwitchFirst == ~panicked => C9_With(Collect(board), FullScan(board))

C9_Case(r) ==
    /\ r.state = "Running"
    /\ r.ran = 1
    /\ r.pointer = pointer
    /\ r.board = FullScan(board)
    /\ At(r.board, pointer) = At(board, pointer)

\* Editor mode with VAR and EXE both down: the cell under the cursor is not
\* toggled, the cursor stays and one generation is computed.
C9_Witness ==
    /\ state = "Editor"
    /\ board /= EmptyBoard
    /\ FullScan(board) /= board
    /\ C9_Case(LoopBody({"VAR", "EXE"}, board, state, pointer, screen, Collect(board)))

C10_Holds(ks, r) ==
    /\ ~r.panicked
    /\ r.pointer \in Cells
    /\ ("LEFT" \in ks /\ "RIGHT" \notin ks /\ pointer[1] = 0) => r.pointer[1] = 0
    /\ ("RIGHT" \in ks /\ "LEFT" \notin ks /\ pointer[1] = LINE_SIZE - 1)
            => r.pointer[1] = LINE_SIZE - 1
    /\ ("UP" \in ks /\ "DOWN" \notin ks /\ pointer[2] = 0) => r.pointer[2] = 0
    /\ ("DOWN" \in ks /\ "UP" \notin ks /\ pointer[2] = COLUMN_SIZE - 1)
            => r.pointer[2] = COLUMN_SIZE - 1

C10_With(col) ==
    \A ks \in KeySnapshots :
        Selected(ks, state) = "Editor" =>
            C10_Holds(ks, LoopBody(ks, board, state, pointer, screen, col))

\* C10: the cursor is always on the board, and in Editor mode a directional
\* key pressed against the boundary it points at, the opposite key not down,
\* leaves that coordinate where it is.
C10_PointerOnBoard == pointer \in Cells /\ (~panicked => C10_With(Collect(board)))

\* Editor mode with the cursor in column 0: LEFT leaves the cursor in place.
C10_Witness ==
    /\ state = "Editor"
    /\ pointer[1] = 0
    /\ LoopBody({"LEFT"}, board, state, pointer, screen, Collect(board)).pointer = pointer
    /\ ~LoopBody({"LEFT"}, board, state, pointer, screen, Collect(board)).panicked

\* ------------------------------------------------------------------------
\* The colours on the screen agree with board b, mode st and cursor p.
Consistent(scr, b, st, p) ==
    /\ \A c \in Cells :
           (st /= "Editor" \/ c /= p) => At(scr, c) = CellColor(b, c)
    /\ st = "Editor" => At(scr, p) = "RED"

\* C11: at the end of every iteration (the call of wait_for_vblank) every cell
\* other than the Editor cursor cell shows the colour of its board value, in
\* Editor mode exactly the cursor cell is highlighted and in Running and
\* StepByStep mode no cell is.
C11_ScreenAgrees ==
    [][Consistent(screen', board', state', pointer')]_vars

\* Editor mode with the cursor moved off the centre, an alive cell left behind
\* at the centre shown in the alive colour, and the alive cursor cell shown
\* highlighted.
C11_Witness ==
    /\ state = "Editor"
    /\ pointer /= <<LINE_SIZE \div 2, COLUMN_SIZE \div 2>>
    /\ At(board, <<LINE_SIZE \div 2, COLUMN_SIZE \div 2>>)
    /\ At(screen, <<LINE_SIZE \div 2, COLUMN_SIZE \div 2>>) = "BLACK"
    /\ At(board, pointer)
    /\ At(screen, pointer) = "RED"
    /\ Consistent(screen, board, state, pointer)

\* ------------------------------------------------------------------------
\* The snapshot ks with no editing key down.
NoEdit(ks) == ks \ {"EXE", "PLUS", "MINUS"}

\* An Editor iteration with EXE down that leaves the cursor where it was.
Toggles(ks, st, p, r) ==
    /\ key_down(ks, "EXE")
    /\ Selected(ks, st) = "Editor"
    /\ r.pointer = p

\* r2 follows two toggles of the cell at the cursor of board b, q2 follows the
\* same two iterations with no editing key down.
C12_Same(r2, q2, b) ==
    /\ ~r2.panicked
    /\ r2.board = b
    /\ r2.screen = q2.screen

C12_Second(ks2, r1, q1, b) ==
    Toggles(ks2, r1.state, r1.pointer,
            LoopBody(ks2, r1.board, r1.state, r1.pointer, r1.screen,
                     Collect(r1.board)))
    => C12_Same(LoopBody(ks2, r1.board, r1.state, r1.pointer, r1.screen,
                         Collect(r1.board)),
                LoopBody(NoEdit(ks2), q1.board, q1.state, q1.pointer, q1.screen,
                         Collect(q1.board)),
                b)

C12_First(ks1, r1, col) ==
    Toggles(ks1, state, pointer, r1)
    => \A ks2 \in KeySnapshots :
          C12_Second(ks2, r1,
                     LoopBody(NoEdit(ks1), board, state, pointer, screen, col),
                     board)

C12_With(col) ==
    \A ks1 \in KeySnapshots :
        C12_First(ks1, LoopBody(ks1, board, state, pointer, screen, col), col)

\* C12: two Editor iterations with EXE down and the cursor not moved give back
\* the board they started from, and the screen is the one the same two
\* iterations produce with no editing key down.
C12_ToggleTwice == [](~panicked => C12_With(Collect(board)))

\* Editor mode, alive cells away from the cursor; one toggle changes the cell
\* at the cursor and the second one changes it back.
C12_Witness ==
    /\ state = "Editor"
    /\ \E c \in Cells \ {pointer} : At(board, c)
    /\ LET r1 == LoopBody({"EXE"}, board, state, pointer, screen, Collect(board))
           r2 == LoopBody({"EXE"}, r1.board, r1.state, r1.pointer, r1.screen,
                          Collect(r1.board))
       IN  /\ At(r1.board, pointer) /= At(board, pointer)
           /\ r2.pointer = pointer
           /\ r2.board = board
           /\ r2.screen = screen

\* ------------------------------------------------------------------------
\* C13: a simulation step on the all-dead board leaves it all dead, marks no
\* cell as visited, collects no birth and no death, and the screen stays all
\* in the dead colour.
C13_EmptyStaysEmpty ==
    (ran = 1 /\ pre_step = EmptyBoard)
    => /\ ~panicked
       /\ board = EmptyBoard
       /\ Collect(pre_step).updated_board = EmptyBoard
       /\ born = <<>>
       /\ died = <<>>
       /\ screen = WhiteScreen

\* Running mode after a step on the all-dead board, with a further step on
\* the result leaving it all dead again.
C13_Witness ==
    /\ state = "Running"
    /\ ran = 1
    /\ pre_step = EmptyBoard
    /\ board = EmptyBoard
    /\ run_once(board, screen).board = EmptyBoard
    /\ run_once(board, screen).screen = screen

\* ------------------------------------------------------------------------
Alive(b) == {c \in Cells : At(b, c)}

\* The alive cells of b are exactly one 2x2 block.
IsBlock(b) ==
    \E x \in 0 .. LINE_SIZE - 2, y \in 0 .. COLUMN_SIZE - 2 :
        Alive(b) = {<<x, y>>, <<x + 1, y>>, <<x, y + 1>>, <<x + 1, y + 1>>}

\* The cells the scan of b marks as visited.
Marked(b) == {c \in Cells : Collect(b).updated_board[c[1]][c[2]]}

C15_LoneCellDies ==
    (ran = 1 /\ Cardinality(Alive(pre_step)) = 1)
    => /\ ~panicked
       /\ board = EmptyBoard
       /\ born = <<>>
       /\ Len(died) = 1
       /\ Range(died) = Alive(pre_step)
       /\ screen = WhiteScreen

\* The lone cell in the corner, where the clamped neighbourhood names it four
\* times.
C15_Witness ==
    /\ ran = 1
    /\ Alive(pre_step) = {<<0, 0>>}
    /\ board = EmptyBoard
    /\ died = << <<0, 0>> >>

\* ------------------------------------------------------------------------
\* C16: the main loop never enters the panic handler: no push on born or died
\* finds the vector full, no index falls off the board, and the two lists
\* together never hold more entries than the board has cells.
C16_NeverPanics ==
    /\ ~panicked
    /\ screen /= PanicScreen
    /\ Len(born) + Len(died) <= BOARD_SIZE
    /\ ~Collect(board).panicked

\* The main loop has stepped the board with every cell alive: the cells with
\* more than three alive neighbours died, nothing panicked.
C16_Witness ==
    /\ ran = 1
    /\ pre_step = AllAlive
    /\ ~panicked
    /\ Len(died) > BOARD_SIZE \div 2
    /\ board = FullScan(AllAlive)

\* ------------------------------------------------------------------------
Directions == {"UP", "DOWN", "LEFT", "RIGHT"}

\* r follows an iteration with the keys ks down.
C17_Holds(ks, r) ==
    (r.state /= "Editor" \/ ks \cap Directions = {}) => r.pointer = pointer

C17_With(col) ==
    \A ks \in KeySnapshots :
        C17_Holds(ks, LoopBody(ks, board, state, pointer, screen, col))

\* C17: an iteration moves the cursor only if it runs the Editor arm with a
\* directional key down; an iteration in Running or StepByStep mode, with or
\* without a mode switch and whatever keys are down, leaves it where it was.
C17_PointerRetained ==
    /\ [](~panicked => C17_With(Collect(board)))
    /\ [][state' /= "Editor" => pointer' = pointer]_vars

\* Running mode after a step, the cursor away from the centre: a directional
\* key does not move it and XNT brings Editor back with the cursor in place.
C17_Witness ==
    /\ state = "Running"
    /\ ran = 1
    /\ pointer /= <<LINE_SIZE \div 2, COLUMN_SIZE \div 2>>
    /\ LoopBody({"LEFT", "UP"}, board, state, pointer, screen, Collect(board)).pointer
          = pointer
    /\ LoopBody({"XNT"}, board, state, pointer, screen, Collect(board)).state = "Editor"
    /\ LoopBody({"XNT"}, board, state, pointer, screen, Collect(board)).pointer = pointer

\* ------------------------------------------------------------------------
\* The value the force keys of ks give the cell: <<TRUE>> for PLUS without
\* EXE, <<FALSE>> for MINUS without EXE and PLUS, <<>> otherwise.
Forced(ks) ==
    IF key_down(ks, "EXE") THEN <<>>
    ELSE IF key_down(ks, "PLUS") THEN <<TRUE>>
    ELSE IF key_down(ks, "MINUS") THEN <<FALSE>>
    ELSE <<>>

\* r1 follows one Editor iteration with the keys ks down, r2 a second one
\* with the same keys; v is the forced value.
C18_Holds(r1, r2, v) ==
    /\ ~r1.panicked /\ ~r2.panicked
    /\ r1.board = [board EXCEPT ![pointer[1]][pointer[2]] = v]
    /\ At(r2.board, pointer) = v
    /\ At(r2.board, r1.pointer) = v
    /\ r1.pointer = pointer => r2.board = r1.board

C18_Twice(ks, r1) ==
    C18_Holds(r1,
              LoopBody(ks, r1.board, r1.state, r1.pointer, r1.screen, Collect(r1.board)),
              Forced(ks)[1])

C18_With(col) ==
    \A ks \in KeySnapshots :
        (Forced(ks) /= <<>> /\ Selected(ks, state) = "Editor")
        => C18_Twice(ks, LoopBody(ks, board, state, pointer, screen, col))

\* C18: an Editor iteration with PLUS down and EXE not down leaves the cell
\* that was under the cursor alive, one with MINUS down and neither EXE nor
\* PLUS down leaves it dead, whatever it was and whatever other keys are down;
\* a second iteration with the same keys keeps that cell, and sets the cell
\* now under the cursor, to the same value, and changes nothing if the cursor
\* has not moved.
C18_ForceKeys == [](~panicked => C18_With(Collect(board)))

\* Editor mode over an alive cell with other cells alive: PLUS leaves the
\* board as it is, MINUS kills the cell, and PLUS with MINUS sets it alive
\* again.
C18_Witness ==
    /\ state = "Editor"
    /\ At(board, pointer)
    /\ \E c \in Cells \ {pointer} : At(board, c)
    /\ LoopBody({"PLUS"}, board, state, pointer, screen, Collect(board)).board = board
    /\ LET r1 == LoopBody({"MINUS"}, board, state, pointer, screen, Collect(board))
           r2 == LoopBody({"MINUS"}, r1.board, r1.state, r1.pointer, r1.screen,
                          Collect(r1.board))
           r3 == LoopBody({"PLUS", "MINUS"}, r2.board, r2.state, r2.pointer, r2.screen,
                          Collect(r2.board))
       IN  /\ ~At(r1.board, pointer)
           /\ r2.board = r1.board
           /\ r3.board = board

\* ------------------------------------------------------------------------
\* r follows an iteration with the keys ks down that runs the Editor arm.
C19_Holds(ks, r) ==
    /\ ~r.panicked
    /\ r.ran = 0
    /\ r.born = <<>> /\ r.died = <<>>
    /\ Changed(board, r.board) \subseteq {pointer}
    /\ NoEdit(ks) = ks => r.board = board

C19_With(col) ==
    \A ks \in KeySnapshots :
        Selected(ks, state) = "Editor"
        => C19_Holds(ks, LoopBody(ks, board, state, pointer, screen, col))

\* C19: an iteration that runs the Editor arm does not call run_once and
\* changes no cell other than the one under the cursor as it was when the
\* iteration started, whether or not the cursor moves; with no editing key
\* down it changes no cell at all.
C19_OneCellAtMost ==
    /\ [](~panicked => C19_With(Collect(board)))
    /\ [][state' = "Editor"
            => (ran' = 0 /\ Changed(board, board') \subseteq {pointer})]_vars

\* Editor mode with alive cells around: EXE with RIGHT inverts the cell the
\* cursor starts on and moves the cursor off it; RIGHT alone only moves.
C19_Witness ==
    /\ state = "Editor"
    /\ \E c \in Cells \ {pointer} : At(board, c)
    /\ LET r == LoopBody({"EXE", "RIGHT"}, board, state, pointer, screen, Collect(board))
           m == LoopBody({"RIGHT"}, board, state, pointer, screen, Collect(board))
       IN  /\ r.pointer /= pointer
           /\ Changed(board, r.board) = {pointer}
           /\ m.pointer = r.pointer
           /\ m.board = board

====
